---- MODULE Spec2Model ----
(***************************************************************************)
(* Verification model of the TTL lookup cache of the directory crate      *)
(* (crates/directory/src/core/cache.rs): LookupCache, built on two         *)
(* lru_cache::LruCache structures, and the CachedDirectory wrapper that    *)
(* guards one LookupCache per mutex; of the value model of the store crate *)
(* (crates/store/src/lib.rs): lookup keys, query results, rows, subspace   *)
(* tags; of the session cache of the JMAP authentication                   *)
(* (crates/jmap/src/auth/authenticate.rs); and of the outbound SMTP        *)
(* resolution of next hops (crates/smtp/src/outbound/lookup.rs).           *)
(***************************************************************************)
EXTENDS Integers, Sequences, FiniteSets, TLC

VARIABLES
    now,        \* Instant::now()
    \* ---- a LookupCache used sequentially ----
    cache,      \* the LookupCache under test
    op,         \* the last operation performed: its name, its key and, for
                \* get and clear, the number of entries it dropped
    ret,        \* what the last get returned
    live_pos,   \* per key: instant of the insert_pos whose entry has not been
                \* evicted for space or cleared since and is within ttl_pos
    live_neg,   \* the same for insert_neg and ttl_neg
    last_ins,   \* per key: polarity of the most recent insert, while live
    used_pos,   \* keys of cache_pos ordered by last insert or get hit
    used_neg,   \* keys of cache_neg ordered by last insert or get hit
    \* ---- a CachedDirectory shared by threads ----
    config,     \* the options try_from_config was given
    dir,        \* what try_from_config returned: Option<CachedDirectory>
    mutex,      \* per cache: the thread holding its Mutex, if any
    th,         \* per thread: where it is in its current call
    lin,        \* the caches as left by the calls taken one at a time, in the
                \* order in which they completed their work on the maps
    \* ---- the JMAP session caches ----
    sessions,       \* JMAP::sessions: token -> account id, with expiry
    access_tokens   \* JMAP::access_tokens: account id -> access token, with expiry

seqVars == <<cache, op, ret, live_pos, live_neg, last_ins, used_pos, used_neg>>
dirVars == <<config, dir, mutex, th, lin>>
jmapVars == <<sessions, access_tokens>>
vars == <<now, seqVars, dirVars, jmapVars>>

(* ------------------------------ bounds -------------------------------- *)

\* largest configured cache.entries value explored
MaxEntries == 2
\* largest configured TTL (in clock units) explored
MaxTtl == 1
\* number of threads sharing a CachedDirectory
NumThreads == 2
\* number of lookups the threads perform in total
MaxLookups == 2
\* number of calls made on a CachedDirectory used by a single caller
MaxCalls == 2
\* last clock instant explored
MaxTime == 1

\* cache keys (recipient addresses / domain names)
Keys == {"a", "b", "c"}
\* the keys looked up through a shared CachedDirectory
Names == {"a", "b"}
Threads == 1..NumThreads

(* --------------------------- Option<T> -------------------------------- *)

None == <<>>
Some(v) == <<v>>
IsSome(o) == o # <<>>
Unwrap(o) == o[1]

(* ---------------- lru_cache::LruCache<K, Instant> ---------------------- *)
\* map is kept in recency order: Head = least recently used, last = most
\* recently used.

LruWithHasher(capacity) == [map |-> <<>>, max_size |-> capacity]

LruKeys(c) == {c.map[i].key : i \in 1..Len(c.map)}

LruContains(c, k) == k \in LruKeys(c)

\* position of k's entry in the map (only used when k is present)
LruIndex(c, k) == CHOOSE i \in 1..Len(c.map) : c.map[i].key = k

\* the value stored under k (only used when k is present)
LruValue(c, k) == c.map[LruIndex(c, k)].value

LruWithout(m, k) == SelectSeq(m, LAMBDA e : e.key # k)

\* variant: a hit leaves the recency order alone
LruGetMutNoRefresh(c, k) == c

\* get_mut: a hit moves the entry to the most-recently-used end
LruGetMut(c, k) ==
    IF LruContains(c, k)
    THEN [c EXCEPT !.map = Append(LruWithout(c.map, k), c.map[LruIndex(c, k)])]
    ELSE c

\* insert: replaces or appends at the most-recently-used end, then removes
\* the least recently used entry when the size exceeds the capacity
LruInsert(c, k, v) ==
    LET m == Append(LruWithout(c.map, k), [key |-> k, value |-> v])
    IN  [c EXCEPT !.map = IF Len(m) > c.max_size THEN Tail(m) ELSE m]

LruRemove(c, k) == [c EXCEPT !.map = LruWithout(c.map, k)]

LruClear(c) == [c EXCEPT !.map = <<>>]

(* ------------------------- LookupCache<T> ------------------------------ *)

DefaultTtlPositive == 86400
DefaultTtlNegative == 3600

new(capacity, ttl_pos, ttl_neg) ==
    [cache_pos |-> LruWithHasher(capacity),
     cache_neg |-> LruWithHasher(capacity),
     ttl_pos   |-> ttl_pos,
     ttl_neg   |-> ttl_neg]

\* variant: an entry is served only strictly before its expiry instant
ValidStrict(valid_until, t) == valid_until > t

\* variant: the expiry instant is not checked
ValidAlways(valid_until, t) == TRUE

\* *valid_until >= Instant::now()
Valid(valid_until, t) == valid_until >= t

\* variant: the negative structure is consulted before the positive one
get_neg_first(self, name, t) ==
    IF LruContains(self.cache_neg, name) /\ Valid(LruValue(self.cache_neg, name), t)
    THEN [self |-> [self EXCEPT !.cache_neg = LruGetMut(self.cache_neg, name)],
          ret  |-> Some(FALSE)]
    ELSE IF LruContains(self.cache_pos, name)
            /\ Valid(LruValue(self.cache_pos, name), t)
    THEN [self |-> [self EXCEPT !.cache_pos = LruGetMut(self.cache_pos, name),
                                !.cache_neg = LruRemove(self.cache_neg, name)],
          ret  |-> Some(TRUE)]
    ELSE [self |-> [self EXCEPT !.cache_pos = LruRemove(self.cache_pos, name),
                                !.cache_neg = LruRemove(self.cache_neg, name)],
          ret  |-> None]

\* variant: the positive check sweeps every expired positive entry
check_positive_sweeping(self, name, t) ==
    LET found == LruContains(self.cache_pos, name)
        swept == [self.cache_pos EXCEPT
                      !.map = SelectSeq(LruGetMut(self.cache_pos, name).map,
                                        LAMBDA e : Valid(e.value, t))]
    IN  [self |-> [self EXCEPT !.cache_pos = swept],
         ret  |-> IF found /\ Valid(LruValue(self.cache_pos, name), t)
                  THEN Some(TRUE) ELSE None]

\* "Check positive cache": the cache afterwards and Some(true) on a hit
check_positive(self, name, t) ==
    LET found == LruContains(self.cache_pos, name)
        ref   == LruGetMut(self.cache_pos, name)
    IN  IF found /\ Valid(LruValue(self.cache_pos, name), t)
        THEN [self |-> [self EXCEPT !.cache_pos = ref], ret |-> Some(TRUE)]
        ELSE IF found
        THEN [self |-> [self EXCEPT !.cache_pos = LruRemove(ref, name)],
              ret  |-> None]
        ELSE [self |-> self, ret |-> None]

\* "Check negative cache": the cache afterwards and the value returned
check_negative(self, name, t) ==
    LET found == LruContains(self.cache_neg, name)
        ref   == LruGetMut(self.cache_neg, name)
    IN  IF ~found
        THEN [self |-> self, ret |-> None]
        ELSE IF Valid(LruValue(self.cache_neg, name), t)
        THEN [self |-> [self EXCEPT !.cache_neg = ref], ret |-> Some(FALSE)]
        ELSE [self |-> [self EXCEPT !.cache_neg = ref,
                                    !.cache_pos = LruRemove(self.cache_pos, name)],
              ret  |-> None]

\* get(name) evaluated at instant t: the cache after the call and the
\* returned Option<bool>
get(self, name, t) ==
    LET p == check_positive(self, name, t)
    IN  IF p.ret = Some(TRUE) THEN p ELSE check_negative(p.self, name, t)

\* variant: the positive structure grows without eviction
insert_pos_unbounded(self, item, t) ==
    [self EXCEPT !.cache_pos.map =
        Append(LruWithout(self.cache_pos.map, item),
               [key |-> item, value |-> t + self.ttl_pos])]

insert_pos(self, item, t) ==
    [self EXCEPT !.cache_pos = LruInsert(self.cache_pos, item, t + self.ttl_pos)]

\* variant: a negative verdict actively invalidates the positive one
insert_neg_invalidating(self, item, t) ==
    [self EXCEPT !.cache_neg = LruInsert(self.cache_neg, item, t + self.ttl_neg),
                 !.cache_pos = LruRemove(self.cache_pos, item)]

insert_neg(self, item, t) ==
    [self EXCEPT !.cache_neg = LruInsert(self.cache_neg, item, t + self.ttl_neg)]

\* variant: only the positive structure is emptied
clear_pos_only(self) ==
    [self EXCEPT !.cache_pos = LruClear(self.cache_pos)]

clear(self) ==
    [self EXCEPT !.cache_pos = LruClear(self.cache_pos),
                 !.cache_neg = LruClear(self.cache_neg)]

(* ------------------------- CachedDirectory ----------------------------- *)

\* the three options read by try_from_config, each present or absent
Configs ==
    [entries      : {None} \cup {Some(n) : n \in 0..MaxEntries},
     ttl_positive : {None} \cup {Some(d) : d \in 0..MaxTtl},
     ttl_negative : {None} \cup {Some(d) : d \in 0..MaxTtl}]

\* variant: without cache.entries a cache of capacity 0 is still built
try_from_config_always(cfg) ==
    Some([cached_domains |-> new(IF IsSome(cfg.entries) THEN Unwrap(cfg.entries) ELSE 0,
                                 DefaultTtlPositive, DefaultTtlNegative),
          cached_rcpts   |-> new(IF IsSome(cfg.entries) THEN Unwrap(cfg.entries) ELSE 0,
                                 DefaultTtlPositive, DefaultTtlNegative)])

try_from_config(cfg) ==
    IF IsSome(cfg.entries)
    THEN LET cached_entries     == Unwrap(cfg.entries)
             cache_ttl_positive == IF IsSome(cfg.ttl_positive)
                                   THEN Unwrap(cfg.ttl_positive)
                                   ELSE DefaultTtlPositive
             cache_ttl_negative == IF IsSome(cfg.ttl_positive)
                                   THEN Unwrap(cfg.ttl_positive)
                                   ELSE DefaultTtlNegative
         IN  Some([cached_domains |-> new(cached_entries, cache_ttl_positive,
                                          cache_ttl_negative),
                   cached_rcpts   |-> new(cached_entries, cache_ttl_positive,
                                          cache_ttl_negative)])
    ELSE None

\* the four methods, each run whole under its cache's mutex at instant t
get_rcpt(self, address, t) ==
    LET r == get(self.cached_rcpts, address, t)
    IN  [self |-> [self EXCEPT !.cached_rcpts = r.self], ret |-> r.ret]

set_rcpt(self, address, exists, t) ==
    IF exists
    THEN [self EXCEPT !.cached_rcpts = insert_pos(self.cached_rcpts, address, t)]
    ELSE [self EXCEPT !.cached_rcpts = insert_neg(self.cached_rcpts, address, t)]

get_domain(self, domain, t) ==
    LET r == get(self.cached_domains, domain, t)
    IN  [self |-> [self EXCEPT !.cached_domains = r.self], ret |-> r.ret]

set_domain(self, domain, exists, t) ==
    IF exists
    THEN [self EXCEPT !.cached_domains = insert_pos(self.cached_domains, domain, t)]
    ELSE [self EXCEPT !.cached_domains = insert_neg(self.cached_domains, domain, t)]

(* --------------------- sequential use of a LookupCache ----------------- *)

NoKey == ""

Size(c) == Len(c.cache_pos.map) + Len(c.cache_neg.map)

\* move k to the most recent end of a key sequence
Touch(u, k) == Append(SelectSeq(u, LAMBDA j : j # k), k)

\* keep only the keys still held by structure c
Held(u, c) == SelectSeq(u, LAMBDA j : LruContains(c, j))

\* bookkeeping of an insert of k at instant t that turned structure c into d
LiveAfterInsert(live, c, d, k, t) ==
    [j \in Keys |->
        IF j = k THEN (IF LruContains(d, k) THEN Some(t) ELSE None)
        ELSE IF LruContains(c, j) /\ ~LruContains(d, j) THEN None
        ELSE live[j]]

\* bookkeeping of the clock reaching instant t: insertions older than ttl lapse
LiveAt(live, ttl, t) ==
    [j \in Keys |->
        IF IsSome(live[j]) /\ Unwrap(live[j]) + ttl < t THEN None ELSE live[j]]

\* the most recent insert of a key is remembered while its insertion is live
LastLive(last, lp, ln) ==
    [j \in Keys |->
        IF last[j] = "pos" /\ ~IsSome(lp[j]) THEN "none"
        ELSE IF last[j] = "neg" /\ ~IsSome(ln[j]) THEN "none"
        ELSE last[j]]

\* the configurations explored for sequential use: a capacity and a TTL
\* short enough to lapse before the clock stops
SeqConfigs ==
    {c \in Configs : /\ IsSome(c.entries)
                     /\ IsSome(c.ttl_positive)
                     /\ Unwrap(c.ttl_positive) < MaxTime}

\* no JMAP server is in use
JmapUnused ==
    /\ sessions = <<>>
    /\ access_tokens = <<>>

\* no CachedDirectory is in use
DirUnused ==
    /\ config = [entries |-> None, ttl_positive |-> None, ttl_negative |-> None]
    /\ dir = None
    /\ mutex = <<>>
    /\ th = <<>>
    /\ lin = None

Init ==
    /\ DirUnused
    /\ JmapUnused
    /\ \E cfg \in SeqConfigs : cache = Unwrap(try_from_config(cfg)).cached_rcpts
    /\ now = 0
    /\ op = [name |-> "new", key |-> NoKey, dropped |-> 0]
    /\ ret = None
    /\ live_pos = [k \in Keys |-> None]
    /\ live_neg = [k \in Keys |-> None]
    /\ last_ins = [k \in Keys |-> "none"]
    /\ used_pos = <<>>
    /\ used_neg = <<>>

Get(k) ==
    LET r == get(cache, k, now)
    IN  /\ cache' = r.self
        /\ ret' = r.ret
        /\ op' = [name |-> "get", key |-> k,
                  dropped |-> Size(cache) - Size(r.self)]
        /\ used_pos' = Held(IF r.ret = Some(TRUE) THEN Touch(used_pos, k)
                            ELSE used_pos, r.self.cache_pos)
        /\ used_neg' = Held(IF r.ret = Some(FALSE) THEN Touch(used_neg, k)
                            ELSE used_neg, r.self.cache_neg)
        /\ UNCHANGED <<now, live_pos, live_neg, last_ins, dirVars, jmapVars>>

InsertPos(k) ==
    LET c  == insert_pos(cache, k, now)
        lp == LiveAfterInsert(live_pos, cache.cache_pos, c.cache_pos, k, now)
    IN  /\ cache' = c
        /\ ret' = None
        /\ op' = [name |-> "insert_pos", key |-> k, dropped |-> 0]
        /\ live_pos' = lp
        /\ last_ins' = LastLive([last_ins EXCEPT ![k] = "pos"], lp, live_neg)
        /\ used_pos' = Held(Touch(used_pos, k), c.cache_pos)
        /\ UNCHANGED <<now, live_neg, used_neg, dirVars, jmapVars>>

InsertNeg(k) ==
    LET c  == insert_neg(cache, k, now)
        ln == LiveAfterInsert(live_neg, cache.cache_neg, c.cache_neg, k, now)
    IN  /\ cache' = c
        /\ ret' = None
        /\ op' = [name |-> "insert_neg", key |-> k, dropped |-> 0]
        /\ live_neg' = ln
        /\ last_ins' = LastLive([last_ins EXCEPT ![k] = "neg"], live_pos, ln)
        /\ used_neg' = Held(Touch(used_neg, k), c.cache_neg)
        /\ UNCHANGED <<now, live_pos, used_pos, dirVars, jmapVars>>

Clear ==
    /\ cache' = clear(cache)
    /\ ret' = None
    /\ op' = [name |-> "clear", key |-> NoKey, dropped |-> Size(cache)]
    /\ live_pos' = [k \in Keys |-> None]
    /\ live_neg' = [k \in Keys |-> None]
    /\ last_ins' = [k \in Keys |-> "none"]
    /\ used_pos' = <<>>
    /\ used_neg' = <<>>
    /\ UNCHANGED <<now, dirVars, jmapVars>>

\* the monotonic clock advances
Tick ==
    LET lp == LiveAt(live_pos, cache.ttl_pos, now + 1)
        ln == LiveAt(live_neg, cache.ttl_neg, now + 1)
    IN  /\ now < MaxTime
        /\ now' = now + 1
        /\ ret' = None
        /\ op' = [name |-> "tick", key |-> NoKey, dropped |-> 0]
        /\ live_pos' = lp
        /\ live_neg' = ln
        /\ last_ins' = LastLive(last_ins, lp, ln)
        /\ UNCHANGED <<cache, used_pos, used_neg, dirVars, jmapVars>>

Next ==
    \/ \E k \in Keys : Get(k)
    \/ \E k \in Keys : InsertPos(k)
    \/ \E k \in Keys : InsertNeg(k)
    \/ Clear
    \/ Tick

Spec == Init /\ [][Next]_vars

(* ------------------ threads sharing a CachedDirectory ----------------- *)

CacheNames == {"cached_domains", "cached_rcpts"}

Idle == [pc |-> "idle", cache |-> "", key |-> NoKey, exists |-> FALSE,
         res |-> None, expect |-> None, at |-> 0, n |-> 0]

\* variant: lock() returns although another thread holds the mutex
CanLockAlways(m) == TRUE

\* Mutex::lock returns once no thread holds the mutex
CanLock(m) == m = None

\* a thread is between lock() and the drop of the guard
InCall(t) ==
    th[t].pc \in {"get_pos", "get_neg", "get_unlock", "set_insert", "set_unlock"}

SeqUnused ==
    /\ cache = new(0, 0, 0)
    /\ op = [name |-> "new", key |-> NoKey, dropped |-> 0]
    /\ ret = None
    /\ live_pos = <<>>
    /\ live_neg = <<>>
    /\ last_ins = <<>>
    /\ used_pos = <<>>
    /\ used_neg = <<>>

\* the configuration of the shared directory: room for one entry per
\* structure, entries that lapse at the next clock instant
DirConfigs ==
    {c \in Configs : /\ c.entries = Some(1)
                     /\ c.ttl_positive = Some(0)
                     /\ c.ttl_negative = Some(0)}

InitDir ==
    /\ SeqUnused
    /\ JmapUnused
    /\ now = 0
    /\ config \in DirConfigs
    /\ dir = try_from_config(config)
    /\ lin = dir
    /\ mutex = [c \in CacheNames |-> None]
    /\ th = [t \in Threads |-> Idle]

RECURSIVE LookupsOf(_)
\* the lookups started by threads 1..i
LookupsOf(i) == IF i = 0 THEN 0 ELSE th[i].n + LookupsOf(i - 1)

\* a thread starts the lookup of a recipient or of a domain; without a
\* CachedDirectory it goes to the directory itself
StartLookup(t, c, k) ==
    /\ th[t].pc = "idle"
    /\ LookupsOf(NumThreads) < MaxLookups
    /\ th' = [th EXCEPT ![t] = [Idle EXCEPT !.pc = IF IsSome(dir) THEN "get"
                                                   ELSE "backend",
                                            !.cache = c, !.key = k,
                                            !.n = th[t].n + 1]]
    /\ UNCHANGED <<now, seqVars, jmapVars, config, dir, mutex, lin>>

\* get_rcpt / get_domain: self.cached_X.lock()
GetLock(t) ==
    /\ th[t].pc = "get"
    /\ CanLock(mutex[th[t].cache])
    /\ mutex' = [mutex EXCEPT ![th[t].cache] = Some(t)]
    /\ th' = [th EXCEPT ![t].pc = "get_pos"]
    /\ UNCHANGED <<now, seqVars, jmapVars, config, dir, lin>>

\* the call, taken whole, applied to the caches of lin
LinGet(t) == get(Unwrap(lin)[th[t].cache], th[t].key, now)

\* get: the positive check, reading the clock
GetPositive(t) ==
    LET c == th[t].cache
        p == check_positive(Unwrap(dir)[c], th[t].key, now)
    IN  /\ th[t].pc = "get_pos"
        /\ dir' = Some([Unwrap(dir) EXCEPT ![c] = p.self])
        /\ IF p.ret = Some(TRUE)
           THEN /\ th' = [th EXCEPT ![t].pc = "get_unlock", ![t].res = p.ret,
                                    ![t].expect = LinGet(t).ret]
                /\ lin' = Some([Unwrap(lin) EXCEPT ![c] = LinGet(t).self])
           ELSE /\ th' = [th EXCEPT ![t].pc = "get_neg"]
                /\ lin' = lin
        /\ UNCHANGED <<now, seqVars, jmapVars, config, mutex>>

\* get: the negative check, reading the clock again
GetNegative(t) ==
    LET c == th[t].cache
        r == check_negative(Unwrap(dir)[c], th[t].key, now)
    IN  /\ th[t].pc = "get_neg"
        /\ dir' = Some([Unwrap(dir) EXCEPT ![c] = r.self])
        /\ th' = [th EXCEPT ![t].pc = "get_unlock", ![t].res = r.ret,
                            ![t].expect = LinGet(t).ret]
        /\ lin' = Some([Unwrap(lin) EXCEPT ![c] = LinGet(t).self])
        /\ UNCHANGED <<now, seqVars, jmapVars, config, mutex>>

\* the guard is dropped as get_rcpt / get_domain returns; on None the caller
\* asks the directory
GetUnlock(t) ==
    /\ th[t].pc = "get_unlock"
    /\ mutex' = [mutex EXCEPT ![th[t].cache] = None]
    /\ th' = [th EXCEPT ![t].pc = IF th[t].res = None THEN "backend" ELSE "idle"]
    /\ UNCHANGED <<now, seqVars, jmapVars, config, dir, lin>>

\* the directory answers; with a CachedDirectory the caller records the answer
Backend(t, exists) ==
    /\ th[t].pc = "backend"
    /\ th' = [th EXCEPT ![t].pc = IF IsSome(dir) THEN "set" ELSE "idle",
                        ![t].exists = exists]
    /\ UNCHANGED <<now, seqVars, jmapVars, config, dir, mutex, lin>>

\* set_rcpt / set_domain: self.cached_X.lock()
SetLock(t) ==
    /\ th[t].pc = "set"
    /\ CanLock(mutex[th[t].cache])
    /\ mutex' = [mutex EXCEPT ![th[t].cache] = Some(t)]
    /\ th' = [th EXCEPT ![t].pc = "set_insert"]
    /\ UNCHANGED <<now, seqVars, jmapVars, config, dir, lin>>

\* the insert a set performs on cache x
SetOn(x, t) ==
    IF th[t].exists THEN insert_pos(x, th[t].key, now)
                    ELSE insert_neg(x, th[t].key, now)

\* set: insert_pos or insert_neg
SetInsert(t) ==
    LET c == th[t].cache
    IN  /\ th[t].pc = "set_insert"
        /\ dir' = Some([Unwrap(dir) EXCEPT ![c] = SetOn(Unwrap(dir)[c], t)])
        /\ lin' = Some([Unwrap(lin) EXCEPT ![c] = SetOn(Unwrap(lin)[c], t)])
        /\ th' = [th EXCEPT ![t].pc = "set_unlock", ![t].at = now]
        /\ UNCHANGED <<now, seqVars, jmapVars, config, mutex>>

\* the guard is dropped as set_rcpt / set_domain returns
SetUnlock(t) ==
    /\ th[t].pc = "set_unlock"
    /\ mutex' = [mutex EXCEPT ![th[t].cache] = None]
    /\ th' = [th EXCEPT ![t].pc = "idle"]
    /\ UNCHANGED <<now, seqVars, jmapVars, config, dir, lin>>

\* the monotonic clock advances
DirTick ==
    /\ now < MaxTime
    /\ now' = now + 1
    /\ UNCHANGED <<seqVars, dirVars, jmapVars>>

ThreadStep(t) ==
    \/ \E c \in CacheNames, k \in Names : StartLookup(t, c, k)
    \/ GetLock(t)
    \/ GetPositive(t)
    \/ GetNegative(t)
    \/ GetUnlock(t)
    \/ \E exists \in BOOLEAN : Backend(t, exists)
    \/ SetLock(t)
    \/ SetInsert(t)
    \/ SetUnlock(t)

NextDir ==
    \/ \E t \in Threads : ThreadStep(t)
    \/ DirTick

SpecDir == InitDir /\ [][NextDir]_vars

(* ------------ a CachedDirectory built from any configuration ---------- *)

\* what is left unused while a single caller uses a CachedDirectory
CallerOnly ==
    /\ cache = new(0, 0, 0)
    /\ live_pos = <<>>
    /\ live_neg = <<>>
    /\ last_ins = <<>>
    /\ used_pos = <<>>
    /\ used_neg = <<>>
    /\ mutex = <<>>
    /\ th = <<>>
    /\ lin = None

callerFrame == <<cache, live_pos, live_neg, last_ins, used_pos, used_neg,
                 mutex, th, lin, config, jmapVars>>

InitConfig ==
    /\ CallerOnly
    /\ JmapUnused
    /\ now = 0
    /\ config \in Configs
    /\ dir = try_from_config(config)
    /\ op = [name |-> "try_from_config", key |-> NoKey, exists |-> FALSE, n |-> 0]
    /\ ret = None

CallGetRcpt(k) ==
    /\ IsSome(dir)
    /\ op.n < MaxCalls
    /\ dir' = Some(get_rcpt(Unwrap(dir), k, now).self)
    /\ ret' = get_rcpt(Unwrap(dir), k, now).ret
    /\ op' = [name |-> "get_rcpt", key |-> k, exists |-> FALSE, n |-> op.n + 1]
    /\ UNCHANGED <<now, callerFrame>>

CallSetRcpt(k, exists) ==
    /\ IsSome(dir)
    /\ op.n < MaxCalls
    /\ dir' = Some(set_rcpt(Unwrap(dir), k, exists, now))
    /\ ret' = None
    /\ op' = [name |-> "set_rcpt", key |-> k, exists |-> exists, n |-> op.n + 1]
    /\ UNCHANGED <<now, callerFrame>>

CallGetDomain(k) ==
    /\ IsSome(dir)
    /\ op.n < MaxCalls
    /\ dir' = Some(get_domain(Unwrap(dir), k, now).self)
    /\ ret' = get_domain(Unwrap(dir), k, now).ret
    /\ op' = [name |-> "get_domain", key |-> k, exists |-> FALSE, n |-> op.n + 1]
    /\ UNCHANGED <<now, callerFrame>>

CallSetDomain(k, exists) ==
    /\ IsSome(dir)
    /\ op.n < MaxCalls
    /\ dir' = Some(set_domain(Unwrap(dir), k, exists, now))
    /\ ret' = None
    /\ op' = [name |-> "set_domain", key |-> k, exists |-> exists, n |-> op.n + 1]
    /\ UNCHANGED <<now, callerFrame>>

\* the monotonic clock advances
ConfigTick ==
    /\ now < MaxTime
    /\ now' = now + 1
    /\ UNCHANGED <<seqVars, dirVars, jmapVars>>

NextConfig ==
    \/ \E k \in Names : CallGetRcpt(k)
    \/ \E k \in Names, exists \in BOOLEAN : CallSetRcpt(k, exists)
    \/ \E k \in Names : CallGetDomain(k)
    \/ \E k \in Names, exists \in BOOLEAN : CallSetDomain(k, exists)
    \/ ConfigTick

SpecConfig == InitConfig /\ [][NextConfig]_vars

(* ------------------- the store module's value model ------------------- *)
\* Strings are sequences of Unicode code points, byte strings are sequences
\* of bytes.

\* longest byte string explored (lookup keys, blob cells)
MaxBytes == 2

\* an ASCII letter, the two bytes of a two-byte UTF-8 sequence (U+00E9), each
\* of which is malformed on its own
Bytes == {97, 195, 169}

RECURSIVE SeqsUpTo(_, _)
\* the sequences over S of length at most n
SeqsUpTo(S, n) ==
    IF n = 0 THEN {<<>>}
    ELSE LET shorter == SeqsUpTo(S, n - 1)
         IN  shorter \cup {Append(q, x) : q \in shorter, x \in S}

ByteStrings == SeqsUpTo(Bytes, MaxBytes)

\* U+FFFD REPLACEMENT CHARACTER
ReplacementChar == 65533

RECURSIVE from_utf8_lossy(_)
\* String::from_utf8_lossy over one- and two-byte sequences: well-formed
\* sequences decode to their code point, every other byte to U+FFFD
from_utf8_lossy(b) ==
    IF b = <<>> THEN <<>>
    ELSE IF b[1] < 128
    THEN <<b[1]>> \o from_utf8_lossy(Tail(b))
    ELSE IF b[1] \in 194..223 /\ Len(b) >= 2 /\ b[2] \in 128..191
    THEN <<(b[1] % 32) * 64 + (b[2] % 64)>> \o from_utf8_lossy(Tail(Tail(b)))
    ELSE <<ReplacementChar>> \o from_utf8_lossy(Tail(b))

\* enum LookupKey { Key(Vec<u8>), Counter(Vec<u8>) }
Key(b) == [variant |-> "Key", bytes |-> b]
Counter(b) == [variant |-> "Counter", bytes |-> b]
LookupKeys == {Key(b) : b \in ByteStrings} \cup {Counter(b) : b \in ByteStrings}

\* impl From<LookupKey> for String: String::from_utf8(key), or the lossy
\* decoding of the same bytes when they are malformed
LookupKeyIntoString(value) ==
    LET key == value.bytes
    IN  from_utf8_lossy(key)

\* most cells of a row, and most rows of a result
MaxCells == 2
MaxRows == 2

\* enum Value: the payload of a cell is kept as a sequence, empty for Null;
\* a Float is kept as twice its value (halves are the fractions explored)
Integer(i) == [type |-> "Integer", v |-> <<i>>]
Bool(b) == [type |-> "Bool", v |-> <<IF b THEN 1 ELSE 0>>]
Float(twice) == [type |-> "Float", v |-> <<twice>>]
Text(str) == [type |-> "Text", v |-> str]
Blob(b) == [type |-> "Blob", v |-> b]
Null == [type |-> "Null", v |-> <<>>]

\* the cells explored: negative, zero and positive integers, both booleans,
\* a whole and a fractional float, an empty and a non-empty text, every blob
CellValues ==
    {Integer(-1), Integer(0), Integer(7), Bool(TRUE), Bool(FALSE),
     Float(3), Float(4), Text(<<>>), Text(<<97>>), Null}
        \cup {Blob(b) : b \in ByteStrings}

\* struct Row { values }, struct Rows { rows }, struct NamedRows { names, rows }
Row(values) == [values |-> values]
RowInputs == {Row(v) : v \in SeqsUpTo(CellValues, MaxCells)}
RowsInputs ==
    {[rows |-> r] :
        r \in SeqsUpTo({Row(v) : v \in SeqsUpTo({Integer(7), Null}, MaxCells)},
                       MaxRows)}
NamedRowsInputs ==
    {[names |-> <<<<105, 100>>>>, rows |-> r] :
        r \in {<<>>, <<Row(<<Integer(7)>>)>>}}

\* trait IntoRows: an implementer is whatever provides the three conversions
IntoRowsImpls ==
    [into_row        : {None, Some(Row(<<Integer(7)>>))},
     into_rows       : RowsInputs,
     into_named_rows : NamedRowsInputs]

\* the types implementing trait QueryResult
ResultTypes == {"usize", "bool", "Option<Row>", "Rows", "NamedRows"}

\* fn query_type() -> QueryType
query_type(R) ==
    CASE R = "Option<Row>" -> "QueryOne"
      [] R = "Rows"        -> "QueryAll"
      [] R = "NamedRows"   -> "QueryAll"
      [] R = "bool"        -> "Exists"
      [] R = "usize"       -> "Execute"

\* unreachable!() aborts the caller; otherwise the constructor returns
Unreachable == [aborted |-> TRUE, value |-> <<>>]
Returned(v) == [aborted |-> FALSE, value |-> v]

from_exec(R, items) ==
    IF R = "usize" THEN Returned(items) ELSE Unreachable

from_exists(R, exists) ==
    IF R = "bool" THEN Returned(exists) ELSE Unreachable

\* variant: Rows also accepts a single-row result
from_query_one_lenient(R, items) ==
    IF R \in {"Option<Row>", "Rows"} THEN Returned(items.into_row) ELSE Unreachable

from_query_one(R, items) ==
    IF R = "Option<Row>" THEN Returned(items.into_row) ELSE Unreachable

from_query_all(R, items) ==
    CASE R = "Rows"      -> Returned(items.into_rows)
      [] R = "NamedRows" -> Returned(items.into_named_rows)
      [] OTHER           -> Unreachable

RECURSIVE Digits(_)
\* the decimal digits of a natural number, as characters
Digits(n) ==
    IF n < 10 THEN <<48 + n>> ELSE Digits(n \div 10) \o <<48 + (n % 10)>>

\* i64::to_string
i64_to_string(i) == IF i < 0 THEN <<45>> \o Digits(-i) ELSE Digits(i)

\* bool::to_string: "true" / "false"
bool_to_string(b) ==
    IF b = 1 THEN <<116, 114, 117, 101>> ELSE <<102, 97, 108, 115, 101>>

\* f64::to_string of a non-negative number of halves: "1.5", "2"
f64_to_string(twice) ==
    Digits(twice \div 2) \o (IF twice % 2 = 1 THEN <<46, 53>> ELSE <<>>)

\* Value::into_string
into_string(self) ==
    CASE self.type = "Text"    -> self.v
      [] self.type = "Integer" -> i64_to_string(self.v[1])
      [] self.type = "Bool"    -> bool_to_string(self.v[1])
      [] self.type = "Float"   -> f64_to_string(self.v[1])
      [] self.type = "Blob"    -> from_utf8_lossy(self.v)
      [] self.type = "Null"    -> <<>>

\* v as u32: the low 32 bits of the two's complement i64, kept as two
\* 16-bit halves (exact for every i64 within the 32-bit signed range)
as_u32(v) == [hi |-> (v \div 65536) % 65536, lo |-> v % 65536]

\* impl From<Row> for Vec<String>
RowIntoStrings(value) ==
    [i \in 1..Len(value.values) |-> into_string(value.values[i])]

\* variant: boolean cells are taken as the integers 0 and 1
RowIntoU32sWithBools(value) ==
    LET ints == SelectSeq(value.values, LAMBDA v : v.type \in {"Integer", "Bool"})
    IN  [i \in 1..Len(ints) |-> as_u32(ints[i].v[1])]

\* impl From<Row> for Vec<u32>
RowIntoU32s(value) ==
    LET ints == SelectSeq(value.values, LAMBDA v : v.type = "Integer")
    IN  [i \in 1..Len(ints) |-> as_u32(ints[i].v[1])]

RECURSIVE Flatten(_)
\* Iterator::flat_map(..).collect() over the per-row results
Flatten(ss) == IF ss = <<>> THEN <<>> ELSE Head(ss) \o Flatten(Tail(ss))

\* impl From<Rows> for Vec<String>
RowsIntoStrings(value) ==
    Flatten([i \in 1..Len(value.rows) |-> RowIntoStrings(value.rows[i])])

\* impl From<Rows> for Vec<u32>
RowsIntoU32s(value) ==
    Flatten([i \in 1..Len(value.rows) |-> RowIntoU32s(value.rows[i])])

\* the subspace tag bytes: b'b', b'v', b'l', b'i', b't', b'c'
SUBSPACE_BITMAPS == 98
SUBSPACE_VALUES == 118
SUBSPACE_LOGS == 108
SUBSPACE_INDEXES == 105

\* variant: blobs tagged with their initial letter
SubspaceBlobsInitial == SUBSPACE_BITMAPS

SUBSPACE_BLOBS == 116
SUBSPACE_COUNTERS == 99

Subspaces == {"bitmaps", "values", "logs", "indexes", "blobs", "counters"}

\* Key::subspace of a key of subspace s
subspace(s) ==
    CASE s = "bitmaps"  -> SUBSPACE_BITMAPS
      [] s = "values"   -> SUBSPACE_VALUES
      [] s = "logs"     -> SUBSPACE_LOGS
      [] s = "indexes"  -> SUBSPACE_INDEXES
      [] s = "blobs"    -> SUBSPACE_BLOBS
      [] s = "counters" -> SUBSPACE_COUNTERS

\* Key serialization flag
WITH_SUBSPACE == 1

\* Key::serialize(flags) of a key of subspace s whose fields encode to body:
\* the tag byte leads when the WITH_SUBSPACE bit is set
serialize(s, body, flags) ==
    IF flags % 2 = WITH_SUBSPACE THEN <<subspace(s)>> \o body ELSE body

\* what the cache and directory variables hold while only the store module
\* is exercised
storeFrame == <<now, cache, live_pos, live_neg, last_ins, used_pos, used_neg,
                dirVars, jmapVars>>

InitStore ==
    /\ CallerOnly
    /\ JmapUnused
    /\ DirUnused
    /\ now = 0
    /\ op = [name |-> "none", arg |-> <<>>]
    /\ ret = None

\* Each behaviour of the store specification evaluates one conversion, on
\* an input of its choice.

\* String::from(key)
KeyIntoString ==
    /\ op.name = "none"
    /\ \E key \in LookupKeys :
           /\ op' = [name |-> "LookupKey::into", arg |-> key]
           /\ ret' = LookupKeyIntoString(key)
    /\ UNCHANGED storeFrame

\* R::from_exec(items)
FromExec ==
    /\ op.name = "none"
    /\ \E R \in ResultTypes, items \in 0..MaxRows :
           /\ op' = [name |-> "from_exec", arg |-> [R |-> R, input |-> items]]
           /\ ret' = from_exec(R, items)
    /\ UNCHANGED storeFrame

\* R::from_exists(exists)
FromExists ==
    /\ op.name = "none"
    /\ \E R \in ResultTypes, exists \in BOOLEAN :
           /\ op' = [name |-> "from_exists", arg |-> [R |-> R, input |-> exists]]
           /\ ret' = from_exists(R, exists)
    /\ UNCHANGED storeFrame

\* R::from_query_one(items)
FromQueryOne ==
    /\ op.name = "none"
    /\ \E R \in ResultTypes, items \in IntoRowsImpls :
           /\ op' = [name |-> "from_query_one", arg |-> [R |-> R, input |-> items]]
           /\ ret' = from_query_one(R, items)
    /\ UNCHANGED storeFrame

\* R::from_query_all(items)
FromQueryAll ==
    /\ op.name = "none"
    /\ \E R \in ResultTypes, items \in IntoRowsImpls :
           /\ op' = [name |-> "from_query_all", arg |-> [R |-> R, input |-> items]]
           /\ ret' = from_query_all(R, items)
    /\ UNCHANGED storeFrame

\* Vec::<String>::from(row)
RowToStrings ==
    /\ op.name = "none"
    /\ \E row \in RowInputs :
           /\ op' = [name |-> "Row::into_strings", arg |-> row]
           /\ ret' = RowIntoStrings(row)
    /\ UNCHANGED storeFrame

\* Vec::<u32>::from(row)
RowToU32s ==
    /\ op.name = "none"
    /\ \E row \in RowInputs :
           /\ op' = [name |-> "Row::into_u32s", arg |-> row]
           /\ ret' = RowIntoU32s(row)
    /\ UNCHANGED storeFrame

\* Vec::<String>::from(rows)
RowsToStrings ==
    /\ op.name = "none"
    /\ \E rows \in RowsInputs :
           /\ op' = [name |-> "Rows::into_strings", arg |-> rows]
           /\ ret' = RowsIntoStrings(rows)
    /\ UNCHANGED storeFrame

\* Vec::<u32>::from(rows)
RowsToU32s ==
    /\ op.name = "none"
    /\ \E rows \in RowsInputs :
           /\ op' = [name |-> "Rows::into_u32s", arg |-> rows]
           /\ ret' = RowsIntoU32s(rows)
    /\ UNCHANGED storeFrame

\* key.serialize(flags)
SerializeKey ==
    /\ op.name = "none"
    /\ \E s \in Subspaces, body \in ByteStrings, flags \in {0, WITH_SUBSPACE} :
           /\ op' = [name |-> "serialize",
                     arg |-> [subspace |-> s, body |-> body, flags |-> flags]]
           /\ ret' = serialize(s, body, flags)
    /\ UNCHANGED storeFrame

NextStore ==
    \/ KeyIntoString
    \/ FromExec
    \/ FromExists
    \/ FromQueryOne
    \/ FromQueryAll
    \/ RowToStrings
    \/ RowToU32s
    \/ RowsToStrings
    \/ RowsToU32s
    \/ SerializeKey

SpecStore == InitStore /\ [][NextStore]_vars

(* ---------------- JMAP authentication of a request --------------------- *)

\* number of requests a behaviour authenticates
MaxRequests == 2

\* the Authorization tokens explored: the base64 of "tom:pw", and the base64
\* of "tom", which holds no colon
AuthTokens == {"dG9tOnB3", "dG9t"}
\* the mechanisms explored, in the spelling the client sent
Mechanisms == {"Basic", "BEARER", "Digest"}
\* primary ids of the accounts the directory knows
AccountIds == {1, 2}

\* the Authorization header: absent, without a space, or mechanism and token
Headers ==
    {None, Some(<<"Basic">>)}
        \cup {Some(<<m, t>>) : m \in Mechanisms, t \in AuthTokens}

\* what the directory (or the token validation) answers
Answers ==
    {[kind |-> "Some", id |-> i] : i \in AccountIds}
        \cup {[kind |-> "None", id |-> 0], [kind |-> "Err", id |-> 0]}

\* self.config.session_cache_ttl
session_cache_ttl == MaxTtl

\* TtlMap::insert_with_ttl
insert_with_ttl(map, key, value, expires) ==
    [map EXCEPT ![key] = Some([value |-> value, expires |-> expires])]

\* TtlMap::get_with_ttl at instant t
get_with_ttl(map, key, t) ==
    IF IsSome(map[key]) /\ Unwrap(map[key]).expires >= t
    THEN Some(Unwrap(map[key]).value)
    ELSE None

\* variant: the session entry is stamped with the current instant
cache_session_no_ttl(map, session_id, primary_id, t) ==
    insert_with_ttl(map, session_id, primary_id, t)

cache_session(map, session_id, primary_id, t) ==
    insert_with_ttl(map, session_id, primary_id, t + session_cache_ttl)

\* the access token is represented by the primary id of its account
cache_access_token(map, primary_id, t) ==
    insert_with_ttl(map, primary_id, primary_id, t + session_cache_ttl)

\* str::eq_ignore_ascii_case
eq_ignore_ascii_case(a, b) ==
    LET lower == [m \in Mechanisms \cup {""} |->
                     CASE m = "Basic"  -> "basic"
                       [] m = "BEARER" -> "bearer"
                       [] m = "Digest" -> "digest"
                       [] OTHER        -> m]
    IN  lower[a] = b

\* base64_decode, String::from_utf8 and split_once(':') of a Basic token:
\* the account and the secret, if the token holds both
decode_basic(token) ==
    IF token = "dG9tOnB3" THEN Some(<<"tom", "pw">>) ELSE None

\* what the cache and directory variables hold while requests are served
authFrame == <<cache, live_pos, live_neg, last_ins, used_pos, used_neg, dirVars>>

InitAuth ==
    /\ CallerOnly
    /\ DirUnused
    /\ now = 0
    /\ sessions = [t \in AuthTokens |-> None]
    /\ access_tokens = [i \in AccountIds |-> None]
    /\ op = [name |-> "authenticate_headers", pc |-> "idle", mechanism |-> "",
             token |-> "", cached |-> FALSE, account |-> None, calls |-> <<>>,
             n |-> 0]
    /\ ret = None

\* the three results of authenticate_headers
OkSome(id) == [result |-> "Ok", session |-> Some(id)]
OkNone == [result |-> "Ok", session |-> None]
ErrLimited == [result |-> "Err", session |-> None]

\* a collaborator was called and answered
Call(fn, out) == [fn |-> fn, out |-> out]

\* the request returns r after the calls cs
Return(r, cs) ==
    /\ op' = [op EXCEPT !.pc = "done", !.calls = op.calls \o cs]
    /\ ret' = r

\* the request goes on at pc after the calls cs
Goto(pc, cs) ==
    /\ op' = [op EXCEPT !.pc = pc, !.calls = op.calls \o cs]
    /\ ret' = None

\* authenticate_headers is entered: the header is split into mechanism and
\* token and the token is looked up in the session cache
Receive(header) ==
    LET parsed  == IsSome(header) /\ Len(Unwrap(header)) = 2
        token   == IF parsed THEN Unwrap(header)[2] ELSE ""
        session == IF parsed THEN get_with_ttl(sessions, token, now) ELSE None
    IN  /\ op.pc \in {"idle", "done"}
        /\ op.n < MaxRequests
        /\ op' = [name |-> "authenticate_headers",
                  pc |-> IF IsSome(session) THEN "cached" ELSE "limit",
                  mechanism |-> IF parsed THEN Unwrap(header)[1] ELSE "",
                  token |-> token, cached |-> IsSome(session),
                  account |-> session, calls |-> <<>>, n |-> op.n + 1]
        /\ ret' = None
        /\ UNCHANGED <<now, jmapVars, authFrame>>

\* get_cached_access_token: the access token cache is looked up
CachedToken ==
    /\ op.pc = "cached"
    /\ IF IsSome(get_with_ttl(access_tokens, Unwrap(op.account), now))
       THEN Goto("account_limit", <<>>)
       ELSE Goto("refresh", <<>>)
    /\ UNCHANGED <<now, jmapVars, authFrame>>

\* variant: a rejected credential and a failing directory both count as an
\* authentication failure
authenticate_plain_strict(answer) ==
    IF answer.kind = "Some"
    THEN [token |-> Some(answer.id),
          calls |-> <<Call("directory.query(Credentials)", "Some")>>]
    ELSE [token |-> None,
          calls |-> <<Call("directory.query(Credentials)", answer.kind),
                      Call("is_auth_allowed_hard", "")>>]

\* authenticate_plain: the access token the directory's answer to the
\* credentials yields, and the calls made to obtain it
authenticate_plain(answer) ==
    CASE answer.kind = "Some" ->
             [token |-> Some(answer.id),
              calls |-> <<Call("directory.query(Credentials)", "Some")>>]
      [] answer.kind = "None" ->
             [token |-> None,
              calls |-> <<Call("directory.query(Credentials)", "None"),
                          Call("is_auth_allowed_hard", "")>>]
      [] answer.kind = "Err" ->
             [token |-> None,
              calls |-> <<Call("directory.query(Credentials)", "Err")>>]

\* get_access_token: directory.query(QueryBy::Id(account_id), true).ok()??
get_access_token(answer) ==
    [token |-> IF answer.kind = "Some" THEN Some(answer.id) ELSE None,
     calls |-> <<Call("directory.query(Id)", answer.kind)>>]

\* get_cached_access_token, "Refresh ACL token": the account is asked of the
\* directory by id and its access token cached again
Refresh(answer) ==
    LET r == get_access_token(answer)
    IN  /\ op.pc = "refresh"
        /\ answer.kind = "Some" => answer.id = Unwrap(op.account)
        /\ IF IsSome(r.token)
           THEN /\ Goto("account_limit",
                        r.calls \o <<Call("cache_access_token", "")>>)
                /\ access_tokens' = cache_access_token(access_tokens,
                                                       Unwrap(r.token), now)
           ELSE /\ Return(OkNone, r.calls)
                /\ UNCHANGED access_tokens
        /\ UNCHANGED <<now, sessions, authFrame>>

\* variant: a request the limiter rejects is answered as unauthenticated
LimitLenient(allowed) ==
    LET basic   == eq_ignore_ascii_case(op.mechanism, "basic")
        bearer  == eq_ignore_ascii_case(op.mechanism, "bearer")
        limiter == IF basic THEN "is_auth_allowed_soft" ELSE "is_anonymous_allowed"
    IN  /\ op.pc = "limit"
        /\ IF ~allowed THEN Return(OkNone, <<Call(limiter, "Err")>>)
           ELSE IF basic \/ bearer THEN Goto("authenticate", <<Call(limiter, "Ok")>>)
           ELSE Return(OkNone, <<Call(limiter, "Ok")>>)
        /\ UNCHANGED <<now, jmapVars, authFrame>>

\* the rate limiter of the non-cached path: is_auth_allowed_soft for Basic,
\* is_anonymous_allowed for Bearer, any other mechanism and no header
Limit(allowed) ==
    LET basic   == eq_ignore_ascii_case(op.mechanism, "basic")
        bearer  == eq_ignore_ascii_case(op.mechanism, "bearer")
        limiter == IF basic THEN "is_auth_allowed_soft" ELSE "is_anonymous_allowed"
    IN  /\ op.pc = "limit"
        /\ IF ~allowed THEN Return(ErrLimited, <<Call(limiter, "Err")>>)
           ELSE IF basic \/ bearer THEN Goto("authenticate", <<Call(limiter, "Ok")>>)
           ELSE Return(OkNone, <<Call(limiter, "Ok")>>)
        /\ UNCHANGED <<now, jmapVars, authFrame>>

\* Basic: the token is decoded and authenticate_plain asks the directory;
\* Bearer: validate_access_token (valid or not), then get_access_token loads
\* the account
Authenticate(answer, valid) ==
    LET basic   == eq_ignore_ascii_case(op.mechanism, "basic")
        decoded == IsSome(decode_basic(op.token))
        r == IF basic THEN authenticate_plain(answer)
             ELSE LET g == get_access_token(answer)
                  IN  [g EXCEPT !.calls =
                           <<Call("validate_access_token", "Ok")>> \o g.calls]
    IN  /\ op.pc = "authenticate"
        /\ IF basic /\ ~decoded
           THEN answer.kind = "Err" /\ valid /\ Return(OkNone, <<>>)
           ELSE IF ~basic /\ ~valid
           THEN /\ answer.kind = "Err"
                /\ Return(OkNone, <<Call("validate_access_token", "Err")>>)
           ELSE IF IsSome(r.token)
           THEN /\ valid
                /\ op' = [op EXCEPT !.pc = "cache", !.account = r.token,
                                    !.calls = op.calls \o r.calls]
                /\ ret' = None
           ELSE valid /\ Return(OkNone, r.calls)
        /\ UNCHANGED <<now, jmapVars, authFrame>>

\* the closure applied to the new access token: cache_session, then
\* cache_access_token
CacheSession ==
    /\ op.pc = "cache"
    /\ sessions' = cache_session(sessions, op.token, Unwrap(op.account), now)
    /\ access_tokens' = cache_access_token(access_tokens, Unwrap(op.account), now)
    /\ Goto("account_limit", <<Call("cache_session", ""),
                               Call("cache_access_token", "")>>)
    /\ UNCHANGED <<now, authFrame>>

\* variant: a rejection by is_account_allowed is answered as unauthenticated
AccountLimitLenient(allowed) ==
    /\ op.pc = "account_limit"
    /\ IF allowed
       THEN Return(OkSome(Unwrap(op.account)), <<Call("is_account_allowed", "Ok")>>)
       ELSE Return(OkNone, <<Call("is_account_allowed", "Err")>>)
    /\ UNCHANGED <<now, jmapVars, authFrame>>

\* "Enforce authenticated rate limit": is_account_allowed(&session)?
AccountLimit(allowed) ==
    /\ op.pc = "account_limit"
    /\ IF allowed
       THEN Return(OkSome(Unwrap(op.account)), <<Call("is_account_allowed", "Ok")>>)
       ELSE Return(ErrLimited, <<Call("is_account_allowed", "Err")>>)
    /\ UNCHANGED <<now, jmapVars, authFrame>>

\* the monotonic clock advances, also while a request is being served
AuthTick ==
    /\ now < MaxTime + session_cache_ttl
    /\ now' = now + 1
    /\ UNCHANGED <<op, ret, jmapVars, authFrame>>

NextAuth ==
    \/ \E header \in Headers : Receive(header)
    \/ CachedToken
    \/ \E answer \in Answers : Refresh(answer)
    \/ \E allowed \in BOOLEAN : Limit(allowed)
    \/ \E answer \in Answers, valid \in BOOLEAN : Authenticate(answer, valid)
    \/ CacheSession
    \/ \E allowed \in BOOLEAN : AccountLimit(allowed)
    \/ AuthTick

SpecAuth == InitAuth /\ [][NextAuth]_vars

(* ------------- SMTP outbound: next hops and their addresses ------------ *)

\* addresses a resolver answer may hold, per family
MaxAddrs == 2
\* largest max_results / max_multihomed explored
MaxResults == 3
\* configured source addresses, per family
MaxSources == 2
\* MX records of a domain
MaxRecords == 2
\* largest max_mx explored
MaxMx == 2

\* mail_auth::IpLookupStrategy
Strategies == {"Ipv4Only", "Ipv6Only", "Ipv4thenIpv6", "Ipv6thenIpv4"}

\* the mail_auth::Error values told apart: DnsRecordNotFound and any other
LookupErrors == {"DnsRecordNotFound", "DnsError"}

\* the address lists of one family a resolver may answer, in its order; an
\* Ipv4Addr or Ipv6Addr is represented by its number within the family
AddrLists ==
    {q \in SeqsUpTo(1..MaxAddrs, MaxAddrs) :
         \A i, j \in 1..Len(q) : i # j => q[i] # q[j]}

\* the results of resolvers.dns.ipv4_lookup and ipv6_lookup
Resolved ==
    {[kind |-> "Ok", addrs |-> q] : q \in AddrLists}
        \cup {[kind |-> e, addrs |-> <<>>] : e \in LookupErrors}

\* IpAddr::from(Ipv4Addr) and IpAddr::from(Ipv6Addr): IpAddr::V4 or ::V6
IpAddr(family, a) == [family |-> family, addr |-> a]

\* variant: a failed IPv6 lookup always counts as an empty answer
ip_lookup_forgiving(strategy, ipv4, ipv6, max_results) ==
    LET has_ipv4 == strategy # "Ipv6Only"
        has_ipv6 == strategy # "Ipv4Only"
        a4 == IF has_ipv4 THEN ipv4.addrs ELSE <<>>
        v4 == [i \in 1..Len(a4) |-> IpAddr("V4", a4[i])]
        v6 == [i \in 1..Len(ipv6.addrs) |-> IpAddr("V6", ipv6.addrs[i])]
        all == IF ~has_ipv6 THEN v4
               ELSE IF strategy = "Ipv4thenIpv6" THEN v4 \o v6 ELSE v6 \o v4
        queried == (IF has_ipv4 THEN <<"ipv4_lookup">> ELSE <<>>)
                       \o (IF has_ipv6 THEN <<"ipv6_lookup">> ELSE <<>>)
    IN  IF ~has_ipv6 /\ ipv4.kind # "Ok"
        THEN [kind |-> ipv4.kind, addrs |-> <<>>, queried |-> queried]
        ELSE [kind |-> "Ok", queried |-> queried,
              addrs |-> SubSeq(all, 1, IF max_results < Len(all)
                                       THEN max_results ELSE Len(all))]

\* variant: the addresses of both families are returned whatever max_results
ip_lookup_unbounded(strategy, ipv4, ipv6, max_results) ==
    LET has_ipv4 == strategy # "Ipv6Only"
        has_ipv6 == strategy # "Ipv4Only"
        a4 == IF has_ipv4 THEN ipv4.addrs ELSE <<>>
        v4 == [i \in 1..Len(a4) |-> IpAddr("V4", a4[i])]
        v6 == [i \in 1..Len(ipv6.addrs) |-> IpAddr("V6", ipv6.addrs[i])]
        queried == (IF has_ipv4 THEN <<"ipv4_lookup">> ELSE <<>>)
                       \o (IF has_ipv6 THEN <<"ipv6_lookup">> ELSE <<>>)
    IN  IF ~has_ipv6 /\ ipv4.kind # "Ok"
        THEN [kind |-> ipv4.kind, addrs |-> <<>>, queried |-> queried]
        ELSE IF has_ipv6 /\ ipv6.kind # "Ok" /\ a4 = <<>>
        THEN [kind |-> ipv6.kind, addrs |-> <<>>, queried |-> queried]
        ELSE [kind |-> "Ok", queried |-> queried,
              addrs |-> IF ~has_ipv6 THEN v4
                        ELSE IF strategy = "Ipv4thenIpv6" THEN v4 \o v6
                        ELSE v6 \o v4]

\* SMTP::ip_lookup: the result on the resolver's answers ipv4 and ipv6, and
\* the lookups it has made of the resolver, in order
ip_lookup(strategy, ipv4, ipv6, max_results) ==
    LET flags == CASE strategy = "Ipv4Only"     -> <<TRUE, FALSE, FALSE>>
                   [] strategy = "Ipv6Only"     -> <<FALSE, TRUE, FALSE>>
                   [] strategy = "Ipv4thenIpv6" -> <<TRUE, TRUE, TRUE>>
                   [] strategy = "Ipv6thenIpv4" -> <<TRUE, TRUE, FALSE>>
        has_ipv4 == flags[1]
        has_ipv6 == flags[2]
        v4_first == flags[3]
        take(q, n) == SubSeq(q, 1, IF n < Len(q) THEN n ELSE Len(q))
        ipv4_addrs == IF has_ipv4 /\ ipv4.kind = "Ok" THEN ipv4.addrs ELSE <<>>
        ipv6_addrs == IF ipv6.kind = "Ok" THEN ipv6.addrs ELSE <<>>
        v4 == [i \in 1..Len(ipv4_addrs) |-> IpAddr("V4", ipv4_addrs[i])]
        v6 == [i \in 1..Len(ipv6_addrs) |-> IpAddr("V6", ipv6_addrs[i])]
        asked4 == IF has_ipv4 THEN <<"ipv4_lookup">> ELSE <<>>
    IN  IF has_ipv4 /\ ipv4.kind # "Ok" /\ ~has_ipv6
        THEN [kind |-> ipv4.kind, addrs |-> <<>>, queried |-> asked4]
        ELSE IF has_ipv6
        THEN IF ipv6.kind # "Ok" /\ ipv4_addrs = <<>>
             THEN [kind |-> ipv6.kind, addrs |-> <<>>,
                   queried |-> asked4 \o <<"ipv6_lookup">>]
             ELSE [kind |-> "Ok", queried |-> asked4 \o <<"ipv6_lookup">>,
                   addrs |-> IF v4_first THEN take(v4 \o v6, max_results)
                             ELSE take(v6 \o v4, max_results)]
        ELSE [kind |-> "Ok", queried |-> asked4,
              addrs |-> LET taken == take(ipv4_addrs, max_results)
                        IN  [i \in 1..Len(taken) |-> IpAddr("V4", taken[i])]]

\* the values of queue.config.source_ip.ipv4 / .ipv6: the first n addresses
SourceLists == {[i \in 1..n |-> i] : n \in 0..MaxSources}

\* "Obtain source IPv4 address" / "Obtain source IPv6 address": rng is the
\* value drawn by gen_range(0..source_ips.len())
source_ip(source_ips, rng, family) ==
    IF Len(source_ips) = 1 THEN Some(IpAddr(family, source_ips[1]))
    ELSE IF Len(source_ips) > 1 THEN Some(IpAddr(family, source_ips[rng + 1]))
    ELSE None

\* variant: a lookup that found no record is retried later
resolve_host_retrying(strategy, ipv4, ipv6, max_multihomed, src4, src6, rng4, rng6) ==
    LET remote_ips == ip_lookup(strategy, ipv4, ipv6, max_multihomed)
    IN  IF remote_ips.kind = "Ok" /\ remote_ips.addrs # <<>>
        THEN [status |-> "Ok", error |-> "",
              source_ipv4 |-> source_ip(src4, rng4, "V4"),
              source_ipv6 |-> source_ip(src6, rng6, "V6"),
              remote_ips |-> remote_ips.addrs]
        ELSE [status |-> "TemporaryFailure", error |-> "DnsError",
              source_ipv4 |-> None, source_ipv6 |-> None, remote_ips |-> <<>>]

\* SMTP::resolve_host: Ok(IpLookupResult) or Err(Status)
resolve_host(strategy, ipv4, ipv6, max_multihomed, src4, src6, rng4, rng6) ==
    LET remote_ips == ip_lookup(strategy, ipv4, ipv6, max_multihomed)
        failure(status, error) ==
            [status |-> status, error |-> error, source_ipv4 |-> None,
             source_ipv6 |-> None, remote_ips |-> <<>>]
    IN  IF remote_ips.kind = "DnsRecordNotFound"
        THEN failure("PermanentFailure", "ConnectionError")
        ELSE IF remote_ips.kind # "Ok"
        THEN failure("TemporaryFailure", "ConnectionError")
        ELSE IF remote_ips.addrs # <<>>
        THEN [status |-> "Ok", error |-> "",
              source_ipv4 |-> source_ip(src4, rng4, "V4"),
              source_ipv6 |-> source_ip(src6, rng6, "V6"),
              remote_ips |-> remote_ips.addrs]
        ELSE failure("TemporaryFailure", "DnsError")

\* the exchanges of an MX record: none, one host or two
Exchanges ==
    LET hosts == {"mx1", "mx2", "."}
    IN  {<<>>} \cup {<<h>> : h \in hosts}
            \cup {p \in {<<g, h>> : g \in hosts, h \in hosts} : p[1] # p[2]}

\* mail_auth::MX
MXRecords == [exchanges : Exchanges, preference : {0, 10}]

\* the MX lists of a domain
MXLists == SeqsUpTo(MXRecords, MaxRecords)

RECURSIVE Shuffles(_)
\* the outcomes of slice.shuffle for each record of the list that has more
\* than one exchange (the other records are not shuffled)
Shuffles(mxs) ==
    IF mxs = <<>> THEN {<<>>}
    ELSE LET ex == Head(mxs).exchanges
             orders == {p \in Exchanges :
                            /\ Len(p) = Len(ex)
                            /\ {p[i] : i \in 1..Len(p)} = {ex[i] : i \in 1..Len(ex)}
                            /\ Len(ex) <= 1 => p = ex}
         IN  {<<p>> \o rest : p \in orders, rest \in Shuffles(Tail(mxs))}

\* NextHop::MX(host)
NextHopMX(host) == [hop |-> "MX", host |-> host]

RECURSIVE PushHosts(_, _, _)
\* the inner loop: the hosts of slice are pushed until max_mx hosts are held
PushHosts(remote_hosts, slice, max_mx) ==
    IF slice = <<>> THEN [hosts |-> remote_hosts, full |-> FALSE]
    ELSE LET pushed == Append(remote_hosts, NextHopMX(Head(slice)))
         IN  IF Len(pushed) = max_mx
             THEN [hosts |-> pushed, full |-> TRUE]
             ELSE PushHosts(pushed, Tail(slice), max_mx)

RECURSIVE RemoteHosts(_, _, _, _)
\* the loop over the MX records, from the given record on
RemoteHosts(mxs, shuffled, remote_hosts, max_mx) ==
    IF mxs = <<>> THEN Some(remote_hosts)
    ELSE LET mx == Head(mxs)
         IN  IF Len(mx.exchanges) > 1
             THEN LET r == PushHosts(remote_hosts, Head(shuffled), max_mx)
                  IN  IF r.full THEN Some(r.hosts)
                      ELSE RemoteHosts(Tail(mxs), Tail(shuffled), r.hosts, max_mx)
             ELSE IF mx.exchanges # <<>>
             THEN IF mx.preference = 0 /\ Head(mx.exchanges) = "."
                  THEN None
                  ELSE LET r == PushHosts(remote_hosts, mx.exchanges, max_mx)
                       IN  IF r.full THEN Some(r.hosts)
                           ELSE RemoteHosts(Tail(mxs), Tail(shuffled), r.hosts,
                                            max_mx)
             ELSE RemoteHosts(Tail(mxs), Tail(shuffled), remote_hosts, max_mx)

\* <Vec<MX> as ToNextHop>::to_remote_hosts
to_remote_hosts(self, domain, max_mx, shuffled) ==
    IF self # <<>>
    THEN RemoteHosts(self, shuffled, <<>>, max_mx)
    ELSE Some(<<NextHopMX(domain)>>)

InitLookup ==
    /\ CallerOnly
    /\ JmapUnused
    /\ DirUnused
    /\ now = 0
    /\ op = [name |-> "none", arg |-> <<>>]
    /\ ret = None

\* Each behaviour of the lookup specification makes one call, on a resolver
\* answer, a configuration and random draws of its choice.

\* ip_lookup(key, strategy, max_results)
IpLookup ==
    /\ op.name = "none"
    /\ \E strategy \in Strategies, ipv4 \in Resolved, ipv6 \in Resolved,
          max_results \in 0..MaxResults :
           /\ op' = [name |-> "ip_lookup",
                     arg |-> [strategy |-> strategy, ipv4 |-> ipv4,
                              ipv6 |-> ipv6, max |-> max_results]]
           /\ ret' = ip_lookup(strategy, ipv4, ipv6, max_results)
    /\ UNCHANGED storeFrame

\* resolve_host(remote_host, envelope, max_multihomed)
ResolveHost ==
    /\ op.name = "none"
    /\ \E strategy \in Strategies, ipv4 \in Resolved, ipv6 \in Resolved,
          max_multihomed \in 0..MaxResults,
          src4 \in SourceLists, src6 \in SourceLists :
           \E rng4 \in 0..(IF Len(src4) > 1 THEN Len(src4) - 1 ELSE 0),
              rng6 \in 0..(IF Len(src6) > 1 THEN Len(src6) - 1 ELSE 0) :
               /\ op' = [name |-> "resolve_host",
                         arg |-> [strategy |-> strategy, ipv4 |-> ipv4,
                                  ipv6 |-> ipv6, max |-> max_multihomed,
                                  src4 |-> src4, src6 |-> src6,
                                  rng4 |-> rng4, rng6 |-> rng6]]
               /\ ret' = resolve_host(strategy, ipv4, ipv6, max_multihomed,
                                      src4, src6, rng4, rng6)
    /\ UNCHANGED storeFrame

\* mxs.to_remote_hosts(domain, max_mx)
ToRemoteHosts ==
    /\ op.name = "none"
    /\ \E mxs \in MXLists, max_mx \in 0..MaxMx :
           \E shuffled \in Shuffles(mxs) :
               /\ op' = [name |-> "to_remote_hosts",
                         arg |-> [mxs |-> mxs, domain |-> "example.org",
                                  max |-> max_mx, shuffled |-> shuffled]]
               /\ ret' = to_remote_hosts(mxs, "example.org", max_mx, shuffled)
    /\ UNCHANGED storeFrame

NextLookup ==
    \/ IpLookup
    \/ ResolveHost
    \/ ToRemoteHosts

SpecLookup == InitLookup /\ [][NextLookup]_vars

(* ------------------------------ claims --------------------------------- *)

\* the positive / negative structure holds an entry for k that is unexpired now
FreshPos(k) ==
    LruContains(cache.cache_pos, k) /\ LruValue(cache.cache_pos, k) >= now
FreshNeg(k) ==
    LruContains(cache.cache_neg, k) /\ LruValue(cache.cache_neg, k) >= now

\* C1: whenever get(k) has returned None, neither the positive nor the
\* negative structure holds an entry for k (an expired entry found by get is
\* removed from the structure that held it).
C1_GetNoneEvicts ==
    (op.name = "get" /\ ret = None) =>
        /\ ~LruContains(cache.cache_pos, op.key)
        /\ ~LruContains(cache.cache_neg, op.key)

\* C2 as stated: get(k) returns the verdict of the most recent live insert for
\* k, Some(false) after insert_neg(k) and Some(true) after insert_pos(k).
C2_LastWriterWins ==
    op.name = "get" =>
        /\ last_ins[op.key] = "neg" => ret = Some(FALSE)
        /\ last_ins[op.key] = "pos" => ret = Some(TRUE)

\* C2 amended: get(k) returns Some(true) when the most recent live insert for
\* k was insert_pos(k); when it was insert_neg(k), get(k) returns Some(false)
\* only if no insert_pos(k) is still live (present and within ttl_pos), and
\* Some(true) otherwise.
C2_LastWriterWinsUnlessPositive ==
    op.name = "get" =>
        /\ last_ins[op.key] = "pos" => ret = Some(TRUE)
        /\ last_ins[op.key] = "neg" =>
               ret = IF IsSome(live_pos[op.key]) THEN Some(TRUE) ELSE Some(FALSE)

\* a get answered Some(true) although the most recent insert was negative
C2_Witness ==
    /\ op.name = "get"
    /\ last_ins[op.key] = "neg"
    /\ IsSome(live_pos[op.key])
    /\ ret = Some(TRUE)

\* C3: a get(k) that leaves an unexpired positive entry for k has returned
\* Some(true), whatever the negative structure holds (get never removes an
\* unexpired positive entry, so the entry was there when get looked).
C3_PositiveFirst ==
    (op.name = "get" /\ FreshPos(op.key)) => ret = Some(TRUE)

\* a get answered Some(true) while a later, unexpired negative entry exists
C3_Witness ==
    /\ op.name = "get"
    /\ ret = Some(TRUE)
    /\ FreshNeg(op.key)
    /\ last_ins[op.key] = "neg"

\* what an insert of k may do to a structure c (turning it into d), where
\* used orders the keys of c by last insert or get hit
EvictsLeastRecentlyUsed(c, d, used, k) ==
    IF LruContains(c, k)
    THEN LruKeys(d) = LruKeys(c)
    ELSE IF Len(c.map) = c.max_size
    THEN LruKeys(d) = (LruKeys(c) \cup {k})
                        \ {IF used = <<>> THEN k ELSE Head(used)}
    ELSE LruKeys(d) = LruKeys(c) \cup {k}

\* C5: an insert of a key not yet present into a full structure removes
\* exactly the entry least recently accessed (by insert, re-insert or get
\* hit); a re-insert of a present key evicts nothing.
C5_LruEviction ==
    [][/\ op'.name = "insert_pos" =>
              EvictsLeastRecentlyUsed(cache.cache_pos, cache'.cache_pos,
                                      used_pos, op'.key)
       /\ op'.name = "insert_neg" =>
              EvictsLeastRecentlyUsed(cache.cache_neg, cache'.cache_neg,
                                      used_neg, op'.key)]_vars

C7_Expiry ==
    (op.name = "get" /\ ~IsSome(live_pos[op.key]) /\ ~IsSome(live_neg[op.key]))
        => ret = None

\* a get that found an expired entry and answered None
C7_Witness ==
    /\ op.name = "get"
    /\ op.dropped = 1
    /\ now > 0
    /\ ret = None

\* C8: no step changes the capacity of either structure, and after every
\* step each structure holds at most that many entries.
C8_CapacityBound ==
    [][/\ cache'.cache_pos.max_size = cache.cache_pos.max_size
       /\ cache'.cache_neg.max_size = cache.cache_neg.max_size
       /\ Len(cache'.cache_pos.map) <= cache.cache_pos.max_size
       /\ Len(cache'.cache_neg.map) <= cache.cache_neg.max_size]_vars

\* an insert into a structure that stays at its capacity of two entries
C8_Witness ==
    /\ op.name = "insert_pos"
    /\ cache.cache_pos.max_size = 2
    /\ Len(cache.cache_pos.map) = 2
    /\ Len(used_pos) = 2
    /\ used_pos[2] = op.key
    /\ Len(cache.cache_neg.map) = 2

\* C10: clear leaves both structures empty, so that get answers None for
\* every key, and leaves capacity and TTLs as they were; afterwards an entry
\* for k appears in a structure only by an insert of k into that structure.
C10_Clear ==
    [][/\ op'.name = "clear" =>
              /\ cache'.cache_pos.map = <<>>
              /\ cache'.cache_neg.map = <<>>
              /\ \A k \in Keys : get(cache', k, now').ret = None
              /\ cache'.cache_pos.max_size = cache.cache_pos.max_size
              /\ cache'.cache_neg.max_size = cache.cache_neg.max_size
              /\ cache'.ttl_pos = cache.ttl_pos
              /\ cache'.ttl_neg = cache.ttl_neg
       /\ \A k \in Keys :
              /\ (LruContains(cache'.cache_pos, k) /\ ~LruContains(cache.cache_pos, k))
                     => op' = [name |-> "insert_pos", key |-> k, dropped |-> 0]
              /\ (LruContains(cache'.cache_neg, k) /\ ~LruContains(cache.cache_neg, k))
                     => op' = [name |-> "insert_neg", key |-> k, dropped |-> 0]
              /\ (ret' # None /\ ~LruContains(cache.cache_pos, k)
                     /\ ~LruContains(cache.cache_neg, k)) => op'.key # k]_vars

\* a clear that dropped entries of both structures
C10_Witness ==
    /\ op.name = "clear"
    /\ op.dropped >= 2
    /\ cache.cache_pos.map = <<>>
    /\ cache.cache_neg.map = <<>>

\* the cache a set_rcpt / set_domain call wrote to
WrittenCache ==
    IF op.name = "set_rcpt" THEN Unwrap(dir).cached_rcpts
                            ELSE Unwrap(dir).cached_domains

\* C4: with cache.ttl.positive = P and cache.ttl.negative = N configured,
\* the entry a set_rcpt / set_domain call has just written expires P (positive
\* verdict) or N (negative verdict) after the instant of the call.
C4_IndependentTtls ==
    (IsSome(dir) /\ IsSome(config.ttl_positive) /\ IsSome(config.ttl_negative)) =>
        /\ (op.name \in {"set_rcpt", "set_domain"} /\ op.exists
               /\ LruContains(WrittenCache.cache_pos, op.key))
               => LruValue(WrittenCache.cache_pos, op.key)
                      = now + Unwrap(config.ttl_positive)
        /\ (op.name \in {"set_rcpt", "set_domain"} /\ ~op.exists
               /\ LruContains(WrittenCache.cache_neg, op.key))
               => LruValue(WrittenCache.cache_neg, op.key)
                      = now + Unwrap(config.ttl_negative)

\* C9: each cache's mutex is held by exactly the thread that is inside a
\* call on that cache, so at most one thread at a time and never a thread
\* that is idle, waiting for a lock or asking the directory; every get has
\* returned what the calls return when taken one at a time, and whenever no
\* call is at work on a cache its maps are what that sequence leaves; and a
\* thread with a lookup in progress never leaves the threads without a step.
C9_MutexSerializes ==
    /\ \A c \in CacheNames :
           /\ \A t \in Threads :
                  (InCall(t) /\ th[t].cache = c) <=> mutex[c] = Some(t)
           /\ (mutex[c] = None \/ th[Unwrap(mutex[c])].pc \in {"get_unlock", "set_unlock"})
                  => Unwrap(dir)[c] = Unwrap(lin)[c]
    /\ \A t \in Threads : th[t].res = th[t].expect
    /\ (\E t \in Threads : th[t].pc # "idle") => ENABLED (\E t \in Threads : ThreadStep(t))

\* a thread is asking the directory, between its get and its set, while
\* another thread is at work on the same cache under the mutex
C9_Witness ==
    \E t, u \in Threads :
        /\ t # u
        /\ th[t].pc = "backend"
        /\ th[u].pc = "set_insert"
        /\ th[u].cache = th[t].cache
        /\ mutex[th[u].cache] = Some(u)

\* C11: with a TTL of 0 for both polarities, every get(k) returns None and
\* leaves k in neither structure, whatever was inserted before and at
\* whatever instant at or after the insertion the get is made.
C11_ZeroTtlNeverServed ==
    (op.name = "get" /\ cache.ttl_pos = 0 /\ cache.ttl_neg = 0) =>
        /\ ret = None
        /\ ~LruContains(cache.cache_pos, op.key)
        /\ ~LruContains(cache.cache_neg, op.key)

Twin(key) == IF key.variant = "Key" THEN Counter(key.bytes) ELSE Key(key.bytes)

\* C13: a Key and a Counter lookup key over the same byte sequence are
\* different keys, and the String a lookup key has been converted to differs
\* from the String the other kind of key over the same bytes converts to.
C13_IndependentKeySpaces ==
    /\ \A b \in ByteStrings : Key(b) # Counter(b)
    /\ op.name = "LookupKey::into" => ret # LookupKeyIntoString(Twin(op.arg))

\* the constructors of trait QueryResult, and the one serving each intent
Constructors == {"from_exec", "from_exists", "from_query_one", "from_query_all"}
ConstructorFor(intent) ==
    CASE intent = "Execute"  -> "from_exec"
      [] intent = "Exists"   -> "from_exists"
      [] intent = "QueryOne" -> "from_query_one"
      [] intent = "QueryAll" -> "from_query_all"

\* C14: usize declares Execute, bool Exists, Option<Row> QueryOne, Rows and
\* NamedRows QueryAll; a constructor call has aborted exactly when it is not
\* the constructor of the intent its result type declares, so the constructor
\* chosen by query_type() never aborts; from_exec has returned the count it
\* was given and from_exists the flag it was given.
C14_QueryResultShapes ==
    /\ query_type("usize") = "Execute"
    /\ query_type("bool") = "Exists"
    /\ query_type("Option<Row>") = "QueryOne"
    /\ query_type("Rows") = "QueryAll"
    /\ query_type("NamedRows") = "QueryAll"
    /\ op.name \in Constructors =>
           /\ ret.aborted <=> op.name # ConstructorFor(query_type(op.arg.R))
           /\ (op.name = "from_exec" /\ ~ret.aborted) => ret.value = op.arg.input
           /\ (op.name = "from_exists" /\ ~ret.aborted) => ret.value = op.arg.input

\* a QueryAll result of two rows delivered as Rows
C14_Witness ==
    /\ op.name = "from_query_all"
    /\ op.arg.R = "Rows"
    /\ ~ret.aborted
    /\ Len(ret.value.rows) = 2

RECURSIVE CellsUpTo(_, _)
\* the cells of the first n rows, row after row
CellsUpTo(rows, n) ==
    IF n = 0 THEN <<>> ELSE CellsUpTo(rows, n - 1) \o rows[n].values

\* the cells of the Row or Rows a projection was applied to, in order
ProjectedCells ==
    IF op.name \in {"Row::into_strings", "Row::into_u32s"}
    THEN op.arg.values
    ELSE CellsUpTo(op.arg.rows, Len(op.arg.rows))

\* the positions of the Integer cells
IntegerCells ==
    {i \in 1..Len(ProjectedCells) : ProjectedCells[i].type = "Integer"}

\* C15: the u32 projection of a Row or Rows has one element per Integer cell
\* and no other: the k-th element comes from the k-th Integer cell; the string
\* projection has one string per cell, the i-th from the i-th cell, and the
\* empty string for a Null cell.
C15_Projections ==
    /\ op.name \in {"Row::into_u32s", "Rows::into_u32s"} =>
           /\ Len(ret) = Cardinality(IntegerCells)
           /\ \A i \in IntegerCells :
                  ret[Cardinality({j \in IntegerCells : j <= i})]
                      = as_u32(ProjectedCells[i].v[1])
    /\ op.name \in {"Row::into_strings", "Rows::into_strings"} =>
           /\ Len(ret) = Len(ProjectedCells)
           /\ \A i \in 1..Len(ProjectedCells) :
                  /\ ret[i] = into_string(ProjectedCells[i])
                  /\ ProjectedCells[i].type = "Null" => ret[i] = <<>>

\* two rows projected to integers: the Null cells between them are dropped
C15_Witness ==
    /\ op.name = "Rows::into_u32s"
    /\ Len(op.arg.rows) = 2
    /\ Len(ProjectedCells) = 4
    /\ ProjectedCells[2] = Null
    /\ ProjectedCells[3] = Null
    /\ ret = <<as_u32(7), as_u32(7)>>

\* C16: the six subspace tags are pairwise distinct, and a key that has been
\* serialized with its subspace tag differs from every key of another
\* subspace serialized with its tag, whatever the other fields encode to.
C16_SubspacesDisjoint ==
    /\ \A s, t \in Subspaces : s # t => subspace(s) # subspace(t)
    /\ (op.name = "serialize" /\ op.arg.flags = WITH_SUBSPACE) =>
           \A t \in Subspaces \ {op.arg.subspace}, body \in ByteStrings :
               serialize(t, body, WITH_SUBSPACE) # ret

\* a blob key and a bitmap key with the same fields, serialized with tags
C16_Witness ==
    /\ op.name = "serialize"
    /\ op.arg.subspace = "blobs"
    /\ op.arg.flags = WITH_SUBSPACE
    /\ Len(op.arg.body) = 2
    /\ ret = <<SUBSPACE_BLOBS>> \o op.arg.body
    /\ serialize("bitmaps", op.arg.body, 0) = serialize("blobs", op.arg.body, 0)

\* an entry for k was in structure c and has left it by this step
Left(c, d, k) == LruContains(c, k) /\ ~LruContains(d, k)

\* C17: an entry leaves a structure only (a) by a get on its own key that
\* finds it expired, (b) by an insert of a key not yet present into that
\* structure when it is full, or (c) by clear; insert_pos leaves the negative
\* structure as it was, insert_neg the positive one, and the passage of time
\* leaves both.
C17_RemovalReasons ==
    [][/\ \A k \in Keys :
              /\ Left(cache.cache_pos, cache'.cache_pos, k) =>
                     \/ /\ op'.name = "get"
                        /\ op'.key = k
                        /\ LruValue(cache.cache_pos, k) < now
                     \/ /\ op'.name = "insert_pos"
                        /\ ~LruContains(cache.cache_pos, op'.key)
                        /\ Len(cache.cache_pos.map) = cache.cache_pos.max_size
                     \/ op'.name = "clear"
              /\ Left(cache.cache_neg, cache'.cache_neg, k) =>
                     \/ /\ op'.name = "get"
                        /\ op'.key = k
                        /\ LruValue(cache.cache_neg, k) < now
                     \/ /\ op'.name = "insert_neg"
                        /\ ~LruContains(cache.cache_neg, op'.key)
                        /\ Len(cache.cache_neg.map) = cache.cache_neg.max_size
                     \/ op'.name = "clear"
       /\ op'.name = "insert_pos" => cache'.cache_neg = cache.cache_neg
       /\ op'.name = "insert_neg" => cache'.cache_pos = cache.cache_pos
       /\ op'.name = "tick" => cache' = cache]_vars

\* a get has removed the expired positive entry of its key and left the
\* expired positive entry of another key in place
C17_Witness ==
    /\ op.name = "get"
    /\ op.dropped = 1
    /\ ~LruContains(cache.cache_pos, op.key)
    /\ \E j \in Keys \ {op.key} :
           LruContains(cache.cache_pos, j) /\ LruValue(cache.cache_pos, j) < now

\* the keys of a structure from least to most recently used
Recency(c) == [i \in 1..Len(c.map) |-> c.map[i].key]

\* insert(a), insert(b), get(a), insert(c) on structures of capacity two
\* evicts b and keeps a: with positive verdicts, and with negative ones
RefreshKeepsA ==
    LET c0 == new(2, 1, 1)
        p  == insert_pos(get(insert_pos(insert_pos(c0, "a", 0), "b", 0),
                             "a", 0).self, "c", 0)
        n  == insert_neg(get(insert_neg(insert_neg(c0, "a", 0), "b", 0),
                             "a", 0).self, "c", 0)
    IN  /\ Recency(p.cache_pos) = <<"a", "c">>
        /\ Recency(n.cache_neg) = <<"a", "c">>

\* C18: a get(k) answered Some(true) has made k the most recently used entry
\* of the positive structure, and one answered Some(false) the most recently
\* used entry of the negative structure, leaving the order of the other
\* entries as it was, so that insert(a), insert(b), get(a), insert(c) at
\* capacity two evicts b and keeps a; a get(k) with k in neither structure
\* changes nothing.
C18_GetRefreshesRecency ==
    [][/\ RefreshKeepsA
       /\ op'.name = "get" =>
              /\ ret' = Some(TRUE) =>
                     /\ Recency(cache'.cache_pos)
                            = Touch(Recency(cache.cache_pos), op'.key)
                     /\ cache'.cache_neg = cache.cache_neg
              /\ ret' = Some(FALSE) =>
                     Recency(cache'.cache_neg)
                         = Touch(Recency(cache.cache_neg), op'.key)
              /\ (~LruContains(cache.cache_pos, op'.key)
                      /\ ~LruContains(cache.cache_neg, op'.key))
                     => cache' = cache]_vars

\* a get answered from a full positive structure of capacity two, whose key
\* is now its most recently used entry
C18_Witness ==
    /\ op.name = "get"
    /\ ret = Some(TRUE)
    /\ cache.cache_pos.max_size = 2
    /\ Len(cache.cache_pos.map) = 2
    /\ Recency(cache.cache_pos)[2] = op.key
    /\ used_pos = Recency(cache.cache_pos)

\* the request called collaborator fn, with any outcome
Called(fn) == \E i \in 1..Len(op.calls) : op.calls[i].fn = fn

\* what a request served from the session cache has not done: no credential
\* was decoded or checked, no token validated, and neither the
\* authentication limiters nor the anonymous limiter was consulted
BypassedVerification ==
    /\ ~Called("is_auth_allowed_soft")
    /\ ~Called("is_anonymous_allowed")
    /\ ~Called("is_auth_allowed_hard")
    /\ ~Called("directory.query(Credentials)")
    /\ ~Called("validate_access_token")

C20_CachedOnlyAfterSuccess ==
    [][/\ sessions' # sessions =>
              /\ ~op.cached
              /\ op.calls[Len(op.calls)]
                     \in {Call("directory.query(Credentials)", "Some"),
                          Call("directory.query(Id)", "Some")}
              /\ \A i \in 1..Len(op.calls) : op.calls[i].out # "Err"
              /\ sessions' = [sessions EXCEPT ![op.token] =
                     Some([value |-> Unwrap(op.account),
                           expires |-> now + session_cache_ttl])]
              /\ access_tokens' = [access_tokens EXCEPT ![Unwrap(op.account)] =
                     Some([value |-> Unwrap(op.account),
                           expires |-> now + session_cache_ttl])]
       /\ (jmapVars' # jmapVars /\ ~op.cached) => sessions' # sessions
       /\ (op'.pc = "done" /\ ~op'.cached /\ ret'.session = None
               /\ ~(\E i \in 1..Len(op'.calls) :
                        op'.calls[i] = Call("is_account_allowed", "Err"))) =>
              \A i \in 1..Len(op'.calls) :
                  op'.calls[i].fn \notin {"cache_session", "cache_access_token"}]_vars

\* a Bearer request has just cached its session and its access token
C20_Witness ==
    /\ op.pc = "account_limit"
    /\ ~op.cached
    /\ op.mechanism = "BEARER"
    /\ op.calls[Len(op.calls)] = Call("cache_access_token", "")
    /\ sessions[op.token] = Some([value |-> Unwrap(op.account),
                                  expires |-> now + session_cache_ttl])
    /\ access_tokens[Unwrap(op.account)]
           = Some([value |-> Unwrap(op.account), expires |-> now + session_cache_ttl])

\* the limiter of the non-cached path for the mechanism of the request
LimiterFor(mechanism) ==
    IF mechanism \in {"Basic", "basic", "BASIC"}
    THEN "is_auth_allowed_soft"
    ELSE "is_anonymous_allowed"

\* C21: on the non-cached path the first call of a request is the limiter of
\* its mechanism (is_auth_allowed_soft for Basic, is_anonymous_allowed for
\* Bearer, any other mechanism and a request without a usable header), and
\* nothing is called before it; a request that limiter rejected has returned
\* the limiter's error after that one call, and no step of it has changed the
\* session cache or the access-token cache; every request answered Ok(Some)
\* has is_account_allowed succeeding as its last call.
C21_LimiterFirst ==
    [][/\ (~op'.cached /\ op'.pc = "limit") =>
              op'.calls = <<>> /\ UNCHANGED jmapVars
       /\ (~op'.cached /\ op'.pc \notin {"idle", "limit"}) =>
              /\ Len(op'.calls) >= 1
              /\ op'.calls[1].fn = LimiterFor(op'.mechanism)
              /\ \A i \in 2..Len(op'.calls) :
                     op'.calls[i].fn \notin {"is_auth_allowed_soft",
                                             "is_anonymous_allowed"}
              /\ op'.calls[1].out = "Err" =>
                     /\ op'.pc = "done"
                     /\ ret' = ErrLimited
                     /\ op'.calls = <<Call(LimiterFor(op'.mechanism), "Err")>>
                     /\ UNCHANGED jmapVars
       /\ (op'.pc = "done" /\ ret'.result = "Ok" /\ IsSome(ret'.session)) =>
              op'.calls[Len(op'.calls)] = Call("is_account_allowed", "Ok")]_vars

\* a Basic request with well-formed credentials was turned away by
\* is_auth_allowed_soft while another token's session was cached
C21_Witness ==
    /\ op.pc = "done"
    /\ ~op.cached
    /\ op.mechanism = "Basic"
    /\ IsSome(decode_basic(op.token))
    /\ op.calls = <<Call("is_auth_allowed_soft", "Err")>>
    /\ ret = ErrLimited
    /\ \E t \in AuthTokens : IsSome(sessions[t])

\* the position of the last call to fn, 0 when it was never made
LastCall(fn) ==
    IF Called(fn)
    THEN CHOOSE i \in 1..Len(op.calls) :
             /\ op.calls[i].fn = fn
             /\ \A j \in (i + 1)..Len(op.calls) : op.calls[j].fn # fn
    ELSE 0

\* C22: is_auth_allowed_hard is called exactly when the directory has
\* answered the credentials with Ok(None), right after that answer; a request
\* whose directory query failed, by credentials or by id, has not called the
\* hard limiter for it and is answered Ok(None), the answer a rejected
\* credential gets.
C22_HardLimiterOnRejection ==
    /\ \A i \in 1..Len(op.calls) :
           /\ op.calls[i].fn = "is_auth_allowed_hard" =>
                  /\ i > 1
                  /\ op.calls[i - 1] = Call("directory.query(Credentials)", "None")
           /\ op.calls[i] = Call("directory.query(Credentials)", "None") =>
                  /\ i < Len(op.calls)
                  /\ op.calls[i + 1].fn = "is_auth_allowed_hard"
           /\ (op.calls[i].fn \in {"directory.query(Credentials)",
                                   "directory.query(Id)"}
                   /\ op.calls[i].out \in {"None", "Err"}) =>
                  /\ op.pc = "done"
                  /\ ret = OkNone
    /\ LastCall("directory.query(Credentials)") > 0 =>
           (Called("is_auth_allowed_hard")
                <=> op.calls[LastCall("directory.query(Credentials)")].out = "None")

\* a Basic request whose directory query failed was answered Ok(None)
\* without a call of the hard limiter
C22_Witness ==
    /\ op.pc = "done"
    /\ op.calls = <<Call("is_auth_allowed_soft", "Ok"),
                    Call("directory.query(Credentials)", "Err")>>
    /\ ret = OkNone

\* the strategies that ask the resolver for both families
DualFamily == {"Ipv4thenIpv6", "Ipv6thenIpv4"}

\* the families of the addresses in a list
Families(addrs) == {addrs[i].family : i \in 1..Len(addrs)}

\* C23: under Ipv4thenIpv6 and Ipv6thenIpv4 both families are looked up,
\* IPv4 first; the call fails exactly when the IPv6 lookup failed and the IPv4
\* lookup failed or found no address, and then with the IPv6 lookup's error;
\* otherwise a failed family contributes no address. Under Ipv4Only and
\* Ipv6Only only that family is looked up and its error is the call's error.
C23_ErrorFallback ==
    op.name = "ip_lookup" =>
        LET a == op.arg
            found4 == a.ipv4.kind = "Ok" /\ a.ipv4.addrs # <<>>
        IN  /\ a.strategy \in DualFamily =>
                /\ ret.queried = <<"ipv4_lookup", "ipv6_lookup">>
                /\ IF a.ipv6.kind # "Ok" /\ ~found4
                   THEN ret.kind = a.ipv6.kind
                   ELSE /\ ret.kind = "Ok"
                        /\ a.ipv4.kind # "Ok" => "V4" \notin Families(ret.addrs)
                        /\ a.ipv6.kind # "Ok" => "V6" \notin Families(ret.addrs)
            /\ a.strategy = "Ipv4Only" =>
                /\ ret.queried = <<"ipv4_lookup">>
                /\ ret.kind = a.ipv4.kind
            /\ a.strategy = "Ipv6Only" =>
                /\ ret.queried = <<"ipv6_lookup">>
                /\ ret.kind = a.ipv6.kind

\* both lookups failed, differently, and the IPv6 error was returned
C23_Witness ==
    /\ op.name = "ip_lookup"
    /\ op.arg.strategy = "Ipv4thenIpv6"
    /\ op.arg.ipv4.kind = "DnsError"
    /\ op.arg.ipv6.kind = "DnsRecordNotFound"
    /\ ret.kind = "DnsRecordNotFound"

\* the addresses of a resolver answer as IpAddr values, none if it failed
Tagged(family, answer) ==
    [i \in 1..Len(answer.addrs) |-> [family |-> family, addr |-> answer.addrs[i]]]

\* C24: a successful ip_lookup returns at most max_results addresses, and
\* they are the first ones of the resolver's answers put one after the other
\* in the order of the strategy: IPv4 then IPv6, IPv6 then IPv4, IPv4 alone
\* or IPv6 alone, each answer in the resolver's order.
C24_ResultShape ==
    (op.name = "ip_lookup" /\ ret.kind = "Ok") =>
        LET a == op.arg
            v4 == Tagged("V4", a.ipv4)
            v6 == Tagged("V6", a.ipv6)
            all == CASE a.strategy = "Ipv4thenIpv6" -> v4 \o v6
                     [] a.strategy = "Ipv6thenIpv4" -> v6 \o v4
                     [] a.strategy = "Ipv4Only"     -> v4
                     [] a.strategy = "Ipv6Only"     -> v6
        IN  /\ Len(ret.addrs) <= a.max
            /\ Len(ret.addrs) <= Len(all)
            /\ Len(ret.addrs) = a.max \/ Len(ret.addrs) = Len(all)
            /\ ret.addrs = SubSeq(all, 1, Len(ret.addrs))
            /\ a.strategy = "Ipv4Only" => Families(ret.addrs) \subseteq {"V4"}
            /\ a.strategy = "Ipv6Only" => Families(ret.addrs) \subseteq {"V6"}

\* four addresses were found and three returned, IPv6 before IPv4
C24_Witness ==
    /\ op.name = "ip_lookup"
    /\ op.arg.strategy = "Ipv6thenIpv4"
    /\ Len(op.arg.ipv4.addrs) = 2
    /\ op.arg.ipv6.addrs = <<2, 1>>
    /\ op.arg.max = 3
    /\ ret.kind = "Ok"
    /\ Len(ret.addrs) = 3
    /\ ret.addrs[1] = [family |-> "V6", addr |-> 2]
    /\ ret.addrs[3].family = "V4"

\* what source address resolve_host may report for the configured list
SourceChoices(family, source_ips) ==
    IF source_ips = <<>> THEN {None}
    ELSE {Some([family |-> family, addr |-> source_ips[i]]) :
              i \in 1..Len(source_ips)}

\* C25: resolve_host answers Ok only with a non-empty remote_ips list, the
\* one ip_lookup returned; PermanentFailure when the lookup failed with
\* DnsRecordNotFound; TemporaryFailure when it failed otherwise or returned
\* no address (max_multihomed = 0 included). In an Ok result the source
\* address of a family is None when none is configured, the configured one
\* when there is one, and one of the configured ones when there are several.
C25_OutcomeMapping ==
    op.name = "resolve_host" =>
        LET a == op.arg
            l == ip_lookup(a.strategy, a.ipv4, a.ipv6, a.max)
        IN  /\ ret.status = "Ok" => ret.remote_ips # <<>>
            /\ l.kind = "DnsRecordNotFound" => ret.status = "PermanentFailure"
            /\ l.kind \in LookupErrors \ {"DnsRecordNotFound"} =>
                   ret.status = "TemporaryFailure"
            /\ (l.kind = "Ok" /\ l.addrs = <<>>) => ret.status = "TemporaryFailure"
            /\ a.max = 0 => ret.status # "Ok"
            /\ (l.kind = "Ok" /\ l.addrs # <<>>) =>
                   /\ ret.status = "Ok"
                   /\ ret.remote_ips = l.addrs
                   /\ ret.source_ipv4 \in SourceChoices("V4", a.src4)
                   /\ ret.source_ipv6 \in SourceChoices("V6", a.src6)

\* a host resolved with two IPv4 source addresses configured, the second
\* of them chosen, and no IPv6 source address
C25_Witness ==
    /\ op.name = "resolve_host"
    /\ ret.status = "Ok"
    /\ op.arg.src4 = <<1, 2>>
    /\ op.arg.src6 = <<>>
    /\ ret.source_ipv4 = Some([family |-> "V4", addr |-> 2])
    /\ ret.source_ipv6 = None

\* the record is a Null MX: preference 0 and "." as its only exchange
NullMX(mx) == mx.preference = 0 /\ mx.exchanges = <<".">>

\* the list holds a Null MX record at some position
HasNullMX(mxs) == \E i \in 1..Len(mxs) : NullMX(mxs[i])

InRecordOrder(hosts, mxs) ==
    \E f \in [1..Len(hosts) -> 1..Len(mxs)] :
        /\ \A i \in 1..Len(hosts) :
               \E e \in 1..Len(mxs[f[i]].exchanges) :
                   mxs[f[i]].exchanges[e] = hosts[i].host
        /\ \A i, j \in 1..Len(hosts) : i < j => f[i] <= f[j]
        /\ \A r \in 1..Len(mxs) :
               Cardinality({i \in 1..Len(hosts) : f[i] = r})
                   <= Len(mxs[r].exchanges)

\* C27: to_remote_hosts of a non-empty list without a Null MX record answers
\* a list of at most max_mx hosts, for every max_mx from 0 on, each an
\* exchange of a record of the list, the hosts of an earlier record before
\* those of a later one.
C27_AtMostMaxMx ==
    (op.name = "to_remote_hosts" /\ op.arg.mxs # <<>> /\ ~HasNullMX(op.arg.mxs)) =>
        /\ IsSome(ret)
        /\ Len(Unwrap(ret)) <= op.arg.max
        /\ \A i \in 1..Len(Unwrap(ret)) : Unwrap(ret)[i].hop = "MX"
        /\ InRecordOrder(Unwrap(ret), op.arg.mxs)

====
